---- MODULE Spec2Model ----
(***************************************************************************)
(* phpIPAM -> NetBox importer.                                             *)
(*                                                                         *)
(* A model of migrate_phpipam_to_netbox.py (main and its five migration    *)
(* phases) and of create_netbox_sites.py (create_sites), as state          *)
(* machines over the source snapshot, the target's collections and the     *)
(* scripts' globals and locals.  Python strings are sequences of           *)
(* one-character strings, so that slicing, strip(), lower(), re.sub and    *)
(* f-strings are computed as the code computes them.                       *)
(***************************************************************************)
EXTENDS Integers, Sequences, FiniteSets, TLC

VARIABLES
    prog,            \* the script that runs: "migrate", "create_sites", "make_slug"
    DRY_RUN,         \* the script's DRY_RUN global
    phpipam,         \* the source snapshot: collection name -> list of records
    nb,              \* the target: collection name -> set of records
    nb0,             \* the target as the run that is under way found it
    SECTIONS_CACHE,  \* {section_id: section_name}
    VRFS_CACHE,      \* {vrf_id: vrf_name}
    VLANS_CACHE,     \* {phpipam_vlan_id: netbox_vlan_id}
    pc,              \* the statement the script is at
    loc,             \* the locals of the function that runs
    log,             \* the sleeps and remote calls of the run, in order
    faults,          \* how many more remote calls may fail
    report,          \* kind -> the counters of its "... Complete:" line
    runs,            \* the DRY_RUN values of the runs still to start
    hist             \* one summary per finished run

vars == <<prog, DRY_RUN, phpipam, nb, nb0, SECTIONS_CACHE, VRFS_CACHE, VLANS_CACHE,
          pc, loc, log, faults, report, runs, hist>>

-----------------------------------------------------------------------------
(* Bounds of the model.                                                    *)

\* Most records in a source snapshot, over all its collections.
MaxRecs == 3
\* Most remote calls that fail in one behaviour.
MaxFaults == 3
\* Longest free prefix of a display name handed to make_slug on its own.
MaxPre == 2
\* Most sections in the snapshot create_sites reads.
MaxSections == 2
\* Most iterations of create_sites' collision loop that are followed.
MaxCounter == 3

-----------------------------------------------------------------------------
(* Program constants.                                                      *)

SLUG_LIMIT == 50
NAME_LIMIT == 100
VLAN_NAME_LIMIT == 64
RETRY_ATTEMPTS == 3
\* time.sleep arguments, in hundredths of a second
REQUEST_DELAY == 5
RETRY_DELAY == 500
\* get_prefix_len's key for a subnet ip_network rejects
NO_PREFIX_LEN == 999
\* ip_network's limits for an IPv4 network
IPV4_OCTET_MAX == 255
IPV4_PREFIX_MAX == 32

-----------------------------------------------------------------------------
(* Python strings and their built-ins.                                     *)

Min(a, b) == IF a < b THEN a ELSE b

UpperCase == <<"A","B","C","D","E","F","G","H","I","J","K","L","M",
               "N","O","P","Q","R","S","T","U","V","W","X","Y","Z">>
LowerCase == <<"a","b","c","d","e","f","g","h","i","j","k","l","m",
               "n","o","p","q","r","s","t","u","v","w","x","y","z">>
Digits == <<"0","1","2","3","4","5","6","7","8","9">>

Range(s) == {s[i] : i \in DOMAIN s}

\* str.lower() on one character
LowerChar(c) ==
    IF \E i \in DOMAIN UpperCase : UpperCase[i] = c
    THEN LowerCase[CHOOSE i \in DOMAIN UpperCase : UpperCase[i] = c]
    ELSE c

\* s.lower()
Lower(s) == [i \in DOMAIN s |-> LowerChar(s[i])]

\* s.replace(a, b) for one-character a and b
Replace(s, a, b) == [i \in DOMAIN s |-> IF s[i] = a THEN b ELSE s[i]]

\* s[:n]
Take(s, n) == SubSeq(s, 1, Min(n, Len(s)))

\* s.strip(chars)
Strip(s, chars) ==
    LET keep == {i \in DOMAIN s : s[i] \notin chars}
    IN  IF keep = {} THEN <<>>
        ELSE SubSeq(s, CHOOSE i \in keep : \A j \in keep : i <= j,
                       CHOOSE i \in keep : \A j \in keep : j <= i)

Whitespace == {" "}

RECURSIVE Rep(_, _)
\* c * n
Rep(c, n) == IF n <= 0 THEN <<>> ELSE <<c>> \o Rep(c, n - 1)

RECURSIVE IntToStr(_)
\* str(n) for n >= 0
IntToStr(n) ==
    IF n < 10 THEN <<Digits[n + 1]>>
    ELSE IntToStr(n \div 10) \o <<Digits[(n % 10) + 1]>>

\* All sequences over S of length at most n
SeqsUpTo(S, n) == UNION {[1..k -> S] : k \in 0..n}

-----------------------------------------------------------------------------
(* The slug helpers of the two scripts.                                    *)

SlugChars == Range(LowerCase) \cup Range(Digits) \cup {"-"}

\* re.sub(r'[^a-z0-9\-]', '', slug)
DropNonSlug(s) == SelectSeq(s, LAMBDA c : c \in SlugChars)

RECURSIVE CollapseHyphens(_)
\* re.sub(r'-+', '-', slug)
CollapseHyphens(s) ==
    IF Len(s) <= 1 THEN s
    ELSE IF s[1] = "-" /\ s[2] = "-" THEN CollapseHyphens(Tail(s))
    ELSE <<s[1]>> \o CollapseHyphens(Tail(s))

\* the normalisation both make_slug functions share, up to strip('-')
SlugNormal(name) ==
    Strip(CollapseHyphens(DropNonSlug(
        Replace(Replace(Lower(name), " ", "-"), "_", "-"))), {"-"})

DefaultSlug == <<"d","e","f","a","u","l","t">>
SiteSlug == <<"s","i","t","e">>

\* A mutation of make_slug: the truncation to 50 characters is missing.
make_slug_untruncated(name) ==
    IF name = <<>> THEN DefaultSlug
    ELSE IF SlugNormal(name) # <<>> THEN SlugNormal(name) ELSE DefaultSlug

\* migrate_phpipam_to_netbox.make_slug
make_slug(name) ==
    IF name = <<>> THEN DefaultSlug
    ELSE IF SlugNormal(name) # <<>> THEN Take(SlugNormal(name), SLUG_LIMIT)
         ELSE DefaultSlug

\* create_netbox_sites.make_slug
sites_make_slug(name) ==
    Take(IF SlugNormal(name) = <<>> THEN SiteSlug ELSE SlugNormal(name), SLUG_LIMIT)

\* f"{base_slug}-{counter}"[:50]
suffixed_slug(base_slug, counter) ==
    Take(base_slug \o <<"-">> \o IntToStr(counter), SLUG_LIMIT)

\* ^[a-z0-9-]{1,50}$
ValidSlug(s) ==
    /\ Len(s) >= 1
    /\ Len(s) <= SLUG_LIMIT
    /\ \A i \in DOMAIN s : s[i] \in SlugChars

-----------------------------------------------------------------------------
(* Python dicts as functions, and the few conversions the scripts use.     *)

EmptyDict == <<>>

\* d[k] = v
DictPut(d, k, v) == [x \in (DOMAIN d) \cup {k} |-> IF x = k THEN v ELSE d[x]]

IsDigits(s) == s # <<>> /\ \A i \in DOMAIN s : s[i] \in Range(Digits)

DigitValue(c) == (CHOOSE i \in DOMAIN Digits : Digits[i] = c) - 1

RECURSIVE ParseInt(_)
\* int(s) for a string of decimal digits
ParseInt(s) ==
    IF Len(s) = 0 THEN 0
    ELSE 10 * ParseInt(SubSeq(s, 1, Len(s) - 1)) + DigitValue(s[Len(s)])

RECURSIVE SplitOn(_, _)
\* s.split(c)
SplitOn(s, c) ==
    IF \A i \in DOMAIN s : s[i] # c THEN <<s>>
    ELSE LET k == CHOOSE i \in DOMAIN s :
                      s[i] = c /\ \A j \in 1..(i - 1) : s[j] # c
         IN  <<SubSeq(s, 1, k - 1)>> \o SplitOn(SubSeq(s, k + 1, Len(s)), c)

\* Whether ipaddress.ip_network accepts f"{subnet}/{mask}" as an IPv4 network
\* with a prefix length (the snapshots of the model hold no IPv6 subnets and
\* no dotted netmasks).
IsIPv4Network(subnet, mask) ==
    LET parts == SplitOn(subnet, ".")
    IN  /\ Len(parts) = 4
        /\ \A i \in 1..4 : /\ IsDigits(parts[i])
                           /\ Len(parts[i]) <= 3
                           /\ ParseInt(parts[i]) <= IPV4_OCTET_MAX
        /\ IsDigits(mask)
        /\ Len(mask) <= 2
        /\ ParseInt(mask) <= IPV4_PREFIX_MAX

\* migrate_prefixes.get_prefix_len
get_prefix_len(s) ==
    IF IsIPv4Network(s.subnet, s.mask) THEN ParseInt(s.mask) ELSE NO_PREFIX_LEN

RECURSIVE InsertByKey(_, _, _)
\* xs is sorted by key; x goes after every element whose key is not larger
InsertByKey(xs, x, key) ==
    IF xs = <<>> THEN <<x>>
    ELSE IF key[x] < key[xs[1]] THEN <<x>> \o xs
    ELSE <<xs[1]>> \o InsertByKey(Tail(xs), x, key)

RECURSIVE SortedPositions(_, _)
\* the positions 1..n of a list in the order list.sort(key=...) leaves them
\* (a stable sort): key[i] is the key of the element at position i
SortedPositions(n, key) ==
    IF n = 0 THEN <<>>
    ELSE InsertByKey(SortedPositions(n - 1, key), n, key)

-----------------------------------------------------------------------------
(* Failures of remote calls and their classification.                      *)

OK == [type |-> "ok", words |-> {}]

\* pynetbox RequestError: "503 Service Unavailable"
E503 == [type |-> "RequestError", words |-> {"503"}]
\* requests' ReadTimeout, raised through pynetbox unchanged: "Read timed out"
ETimeout == [type |-> "Exception", words |-> {"timed out"}]
\* RequestError: "400 Bad Request: ... already exists"
EExists == [type |-> "RequestError", words |-> {"400", "already exists"}]
\* RequestError: "400 Bad Request: ... is invalid"
EInvalid == [type |-> "RequestError", words |-> {"400", "invalid"}]
\* RequestError: "400 Bad Request: ... Duplicate prefix found in global table"
EDuplicate == [type |-> "RequestError", words |-> {"400", "duplicate"}]
\* RequestError: "500 Internal Server Error"
E500 == [type |-> "RequestError", words |-> {"500"}]

Errors == {E503, ETimeout, EExists, EInvalid, EDuplicate, E500}
Outcomes == {OK} \cup Errors

connection_indicators ==
    {"connection", "timeout", "timed out", "reset", "refused", "disconnected",
     "broken pipe", "network", "unreachable", "502", "503", "504", "429",
     "remotedisconnected"}

validation_indicators ==
    {"400", "already exists", "duplicate", "unique constraint", "invalid",
     "required", "must be", "cannot be", "not allowed"}

is_connection_error(e) == e.words \cap connection_indicators # {}

is_validation_error(e) == e.words \cap validation_indicators # {}

\* 'already exists' in error_str.lower()
SaysAlreadyExists(e) == "already exists" \in e.words

Failed(o) == o # OK

\* how many of the outcomes are failures
FaultCount(os) == Cardinality({i \in DOMAIN os : Failed(os[i])})

\* What a fetch of a source collection can answer.
FetchOutcomes == {"ok", "404", "transport", "not_success"}

\* A mutation of phpipam_get: with required false, an answer whose success
\* flag is false gives an empty list too.
phpipam_get_lenient(data, required, outcome) ==
    IF outcome = "ok" THEN [raised |-> FALSE, result |-> data]
    ELSE IF required THEN [raised |-> TRUE, result |-> <<>>]
    ELSE [raised |-> FALSE, result |-> <<>>]

\* phpipam_get(endpoint, required): "raise" or the list returned.  "404":
\* status 404; "transport": requests raises a RequestException (no
\* connection, a timeout, another error status through raise_for_status);
\* "not_success": the answer's success flag is false.
phpipam_get(data, required, outcome) ==
    CASE outcome = "ok" -> [raised |-> FALSE, result |-> data]
      [] outcome = "404" ->
            IF required THEN [raised |-> TRUE, result |-> <<>>]
            ELSE [raised |-> FALSE, result |-> <<>>]
      [] outcome = "transport" ->
            IF required THEN [raised |-> TRUE, result |-> <<>>]
            ELSE [raised |-> FALSE, result |-> <<>>]
      [] outcome = "not_success" -> [raised |-> TRUE, result |-> <<>>]

-----------------------------------------------------------------------------
(* The log of a run: every time.sleep and every remote call, in order.     *)

\* ph: the phase that runs; rec: the position in the snapshot of the record
\* being processed (0: none); res: OK, or the error the call raised
Event(op, coll, arg, ph, rec, res) ==
    [op |-> op, coll |-> coll, arg |-> arg, ph |-> ph, rec |-> rec, res |-> res]

SleepEv(secs, ph, rec) == Event("sleep", "", secs, ph, rec, OK)

\* time.sleep(REQUEST_DELAY) followed by a call on a target collection
Delayed(op, coll, arg, ph, rec, o) ==
    <<SleepEv(REQUEST_DELAY, ph, rec), Event(op, coll, arg, ph, rec, o)>>

\* a call on a target collection with no sleep before it
Undelayed(op, coll, arg, ph, rec, o) ==
    <<Event(op, coll, arg, ph, rec, o)>>

\* a fetch that did not return the collection
FetchFailed == [type |-> "FetchError", words |-> {}]

FetchEv(endpoint, ph, outcome) ==
    Event("get", endpoint, <<>>, ph, 0, IF outcome = "ok" THEN OK ELSE FetchFailed)

\* created += 1, skipped += 1 or errors += 1 for the record; nothing for
\* "none" (the record is passed over) and "retry" (the retry loop goes on)
Counted(which, ph, rec) ==
    IF which \in {"none", "retry"} THEN <<>>
    ELSE <<Event("count", which, <<>>, ph, rec, OK)>>

\* how many calls op the phase ph made on the collection coll
CountEv(l, op, coll, ph) ==
    Cardinality({i \in DOMAIN l :
                    l[i].op = op /\ l[i].coll = coll /\ l[i].ph = ph})

-----------------------------------------------------------------------------
(* The target (NetBox) as the scripts see it through pynetbox.  A filter   *)
(* returns the records whose fields equal the arguments; an argument of    *)
(* None (0 for an id) matches the records that have no such reference.     *)
(* Results are listed by ascending id.                                     *)

NoId == 0

\* the id of existing[0]
FirstId(recs) == CHOOSE i \in {r.id : r \in recs} : \A r \in recs : i <= r.id

\* .create(...): the record is stored under the next free id
Created(store, coll, fields) ==
    [store EXCEPT ![coll] = @ \cup {fields @@ [id |-> store.next_id]},
                  !.next_id = @ + 1]

-----------------------------------------------------------------------------
(* Counters and the shape of a step's result.                              *)

Zero == [created |-> 0, skipped |-> 0, errors |-> 0]

\* A mutation of Count: skipped += 1 is missing.
Count_without_skipped(c, which) ==
    IF which \in {"none", "skipped"} THEN c ELSE [c EXCEPT ![which] = @ + 1]

\* counter += 1; "none" leaves the counters as they are
Count(c, which) == IF which = "none" THEN c ELSE [c EXCEPT ![which] = @ + 1]

\* the counter the handlers of migrate_vrfs and migrate_vlan_groups pick
\* (except RequestError / except Exception)
SimpleExcept(e) ==
    IF e.type = "RequestError" /\ is_validation_error(e) THEN "skipped"
    ELSE "errors"

\* the result of a stretch of code: the target after it, the events it
\* logged, the counter it incremented, the failures it met
Result(store, evs, which, used) ==
    [nb |-> store, evs |-> evs, count |-> which, used |-> used]

\* the outcomes a remote call can have while failures are left
OutcomesNow == IF faults = 0 THEN {OK} ELSE Outcomes
FetchOutcomesNow == IF faults = 0 THEN {"ok"} ELSE FetchOutcomes

FetchFaults(fs) == Cardinality({i \in DOMAIN fs : fs[i] # "ok"})

RECURSIVE DictOfPairs(_)
\* {k: v for (k, v) in pairs if k}
DictOfPairs(ps) ==
    IF ps = <<>> THEN EmptyDict
    ELSE LET d == DictOfPairs(SubSeq(ps, 1, Len(ps) - 1))
             p == ps[Len(ps)]
         IN  IF p[1] = <<>> THEN d ELSE DictPut(d, p[1], p[2])

-----------------------------------------------------------------------------
(* build_caches and the lookups in the caches.                             *)

BuildCaches ==
    /\ prog = "migrate"
    /\ pc = "build_caches"
    /\ \E f1 \in FetchOutcomesNow, f2 \in FetchOutcomesNow :
          LET sections == phpipam_get(phpipam.sections, FALSE, f1)
              vrfs == phpipam_get(phpipam.vrfs, FALSE, f2)
          IN  /\ FetchFaults(<<f1, f2>>) <= faults
              /\ faults' = faults - FetchFaults(<<f1, f2>>)
              /\ SECTIONS_CACHE' =
                    IF sections.raised THEN EmptyDict
                    ELSE DictOfPairs([i \in DOMAIN sections.result |->
                            <<sections.result[i].id, sections.result[i].name>>])
              /\ VRFS_CACHE' =
                    IF vrfs.raised THEN EmptyDict
                    ELSE DictOfPairs([i \in DOMAIN vrfs.result |->
                            <<vrfs.result[i].vrfId, vrfs.result[i].name>>])
              /\ log' = log \o <<FetchEv("sections", "build_caches", f1),
                                 FetchEv("vrfs", "build_caches", f2)>>
    /\ pc' = "vrfs:fetch"
    /\ UNCHANGED <<prog, DRY_RUN, phpipam, nb0, nb, VLANS_CACHE, loc, report, runs, hist>>

\* get_section_name / get_vrf_name: None is the empty string here
CacheGet(cache, id) ==
    IF id = <<>> \/ id \notin DOMAIN cache THEN <<>> ELSE cache[id]

get_section_name(section_id) == CacheGet(SECTIONS_CACHE, section_id)

get_vrf_name(vrf_id) == CacheGet(VRFS_CACHE, vrf_id)

-----------------------------------------------------------------------------
(* The phases of main, in the order main calls them.                       *)

\* A mutation of main's order: the prefixes are migrated before the VLANs.
PhasesPrefixesFirst == <<"vrfs", "vlan_groups", "prefixes", "vlans", "addresses">>

Phases == <<"vrfs", "vlan_groups", "vlans", "prefixes", "addresses">>

PhaseNo(ph) == CHOOSE i \in DOMAIN Phases : Phases[i] = ph

\* where main goes when the phase ph returns
AfterPhase(ph) ==
    IF PhaseNo(ph) = Len(Phases) THEN "complete"
    ELSE Phases[PhaseNo(ph) + 1] \o ":fetch"

\* the locals of a phase when its loop starts
Loop(list) == [list |-> list, idx |-> 1, c |-> Zero]

\* A phase's fetch: the phase returns when the fetch raises or the list is
\* empty, and starts its loop otherwise.
Fetch(ph, endpoint) ==
    /\ prog = "migrate"
    /\ pc = ph \o ":fetch"
    /\ \E f \in FetchOutcomesNow :
          LET got == phpipam_get(phpipam[endpoint], FALSE, f)
          IN  /\ faults' = faults - FetchFaults(<<f>>)
              /\ log' = log \o <<FetchEv(endpoint, ph, f)>>
              /\ IF got.raised \/ got.result = <<>>
                 THEN /\ pc' = AfterPhase(ph)
                      /\ loc' = <<>>
                 ELSE /\ pc' = ph \o ":loop"
                      /\ loc' = Loop(got.result)
    /\ UNCHANGED <<prog, DRY_RUN, phpipam, nb0, nb, SECTIONS_CACHE, VRFS_CACHE,
                   VLANS_CACHE, report, runs, hist>>

\* The end of a phase's loop: the "... Complete:" line, then back in main.
Complete(ph) ==
    /\ prog = "migrate"
    /\ pc = ph \o ":loop"
    /\ loc.idx > Len(loc.list)
    /\ report' = DictPut(report, ph, loc.c)
    /\ pc' = AfterPhase(ph)
    /\ loc' = <<>>
    /\ UNCHANGED <<prog, DRY_RUN, phpipam, nb0, nb, SECTIONS_CACHE, VRFS_CACHE,
                   VLANS_CACHE, log, faults, runs, hist>>

\* the part of a loop iteration every phase shares: the step's result r is
\* taken only if every failure handed to it was met
Apply(r, os, ph, rec) ==
    /\ FaultCount(os) = r.used
    /\ r.used <= faults
    /\ faults' = faults - r.used
    /\ nb' = r.nb
    /\ log' = log \o r.evs \o Counted(r.count, ph, rec)

-----------------------------------------------------------------------------
(* migrate_vrfs                                                            *)

vrf_iteration(store, dry, v, rec, o1, o2) ==
    LET name == Strip(v.name, Whitespace)
        existing == {r \in store.vrfs : r.name = name}
        payload == [name |-> Take(name, NAME_LIMIT)]
        check == Delayed("filter", "vrfs", name, "vrfs", rec, o1)
        create == Delayed("create", "vrfs", payload, "vrfs", rec, o2)
    IN  IF name = <<>> THEN Result(store, <<>>, "none", 0)
        ELSE IF Failed(o1) THEN Result(store, check, SimpleExcept(o1), 1)
        ELSE IF existing # {} THEN Result(store, check, "skipped", 0)
        ELSE IF dry THEN Result(store, check, "created", 0)
        ELSE IF Failed(o2) THEN Result(store, check \o create, SimpleExcept(o2), 1)
        ELSE Result(Created(store, "vrfs", payload), check \o create, "created", 0)

MigrateVrfsFetch == Fetch("vrfs", "vrfs")

MigrateVrfsRecord ==
    /\ prog = "migrate"
    /\ pc = "vrfs:loop"
    /\ loc.idx <= Len(loc.list)
    /\ \E o1 \in OutcomesNow, o2 \in OutcomesNow :
          LET r == vrf_iteration(nb, DRY_RUN, loc.list[loc.idx], loc.idx, o1, o2)
          IN  /\ Apply(r, <<o1, o2>>, "vrfs", loc.idx)
              /\ loc' = [loc EXCEPT !.idx = @ + 1, !.c = Count(@, r.count)]
    /\ UNCHANGED <<prog, DRY_RUN, phpipam, nb0, SECTIONS_CACHE, VRFS_CACHE, VLANS_CACHE,
                   pc, report, runs, hist>>

MigrateVrfsComplete == Complete("vrfs")

-----------------------------------------------------------------------------
(* migrate_vlan_groups                                                     *)

vlan_group_iteration(store, dry, d, rec, o1, o2) ==
    LET name == Strip(d.name, Whitespace)
        existing == {r \in store.vlan_groups : r.name = name}
        payload == [name |-> Take(name, NAME_LIMIT), slug |-> make_slug(name)]
        check == Delayed("filter", "vlan_groups", name, "vlan_groups", rec, o1)
        create == Delayed("create", "vlan_groups", payload, "vlan_groups", rec, o2)
    IN  IF name = <<>> THEN Result(store, <<>>, "none", 0)
        ELSE IF Failed(o1) THEN Result(store, check, SimpleExcept(o1), 1)
        ELSE IF existing # {} THEN Result(store, check, "skipped", 0)
        ELSE IF dry THEN Result(store, check, "created", 0)
        ELSE IF Failed(o2) THEN Result(store, check \o create, SimpleExcept(o2), 1)
        ELSE Result(Created(store, "vlan_groups", payload), check \o create,
                    "created", 0)

MigrateVlanGroupsFetch == Fetch("vlan_groups", "l2domains")

MigrateVlanGroupsRecord ==
    /\ prog = "migrate"
    /\ pc = "vlan_groups:loop"
    /\ loc.idx <= Len(loc.list)
    /\ \E o1 \in OutcomesNow, o2 \in OutcomesNow :
          LET r == vlan_group_iteration(nb, DRY_RUN, loc.list[loc.idx], loc.idx,
                                        o1, o2)
          IN  /\ Apply(r, <<o1, o2>>, "vlan_groups", loc.idx)
              /\ loc' = [loc EXCEPT !.idx = @ + 1, !.c = Count(@, r.count)]
    /\ UNCHANGED <<prog, DRY_RUN, phpipam, nb0, SECTIONS_CACHE, VRFS_CACHE, VLANS_CACHE,
                   pc, report, runs, hist>>

MigrateVlanGroupsComplete == Complete("vlan_groups")

-----------------------------------------------------------------------------
(* The retry loop of migrate_vlans, migrate_prefixes and migrate_addresses *)

\* A mutation of retry_except: a rejected create counts as an error whatever
\* its message says.
retry_except_all_errors(e, attempt) ==
    IF e.type = "RequestError" /\ ("400" \in e.words \/ is_validation_error(e))
    THEN "errors"
    ELSE IF attempt < RETRY_ATTEMPTS - 1 /\ is_connection_error(e) THEN "retry"
    ELSE "errors"

\* A mutation of retry_except: a connection error is retried whatever the
\* number of the attempt is.
retry_except_unbounded(e, attempt) ==
    IF e.type = "RequestError" /\ ("400" \in e.words \/ is_validation_error(e))
    THEN IF SaysAlreadyExists(e) THEN "skipped" ELSE "errors"
    ELSE IF is_connection_error(e) THEN "retry"
    ELSE "errors"

\* What the handlers of the loop do with a failure e of attempt number
\* attempt (0, 1, 2): count it as skipped or errors and break, or retry.
retry_except(e, attempt) ==
    IF e.type = "RequestError" /\ ("400" \in e.words \/ is_validation_error(e))
    THEN IF SaysAlreadyExists(e) THEN "skipped" ELSE "errors"
    ELSE IF attempt < RETRY_ATTEMPTS - 1 /\ is_connection_error(e) THEN "retry"
    ELSE "errors"

\* the sleep before the next attempt
RetrySleep(ph, rec) == <<SleepEv(RETRY_DELAY, ph, rec)>>

-----------------------------------------------------------------------------
(* get_or_create_vrf and get_scope_for_section                             *)

Resolved(store, evs, used, id) ==
    [nb |-> store, evs |-> evs, used |-> used, id |-> id]

\* A mutation of get_or_create_vrf: the DRY_RUN test before the create is
\* missing.
get_or_create_vrf_always(store, dry, name, ph, rec, o1, o2) ==
    LET vrfs == {r \in store.vrfs : r.name = name}
        payload == [name |-> Take(name, NAME_LIMIT)]
        lookup == Delayed("filter", "vrfs", name, ph, rec, o1)
        create == Delayed("create", "vrfs", payload, ph, rec, o2)
    IN  IF name = <<>> THEN Resolved(store, <<>>, 0, NoId)
        ELSE IF Failed(o1) THEN Resolved(store, lookup, 1, NoId)
        ELSE IF vrfs # {} THEN Resolved(store, lookup, 0, FirstId(vrfs))
        ELSE IF Failed(o2) THEN Resolved(store, lookup \o create, 1, NoId)
        ELSE Resolved(Created(store, "vrfs", payload), lookup \o create, 0,
                      store.next_id)

get_or_create_vrf(store, dry, name, ph, rec, o1, o2) ==
    LET vrfs == {r \in store.vrfs : r.name = name}
        payload == [name |-> Take(name, NAME_LIMIT)]
        lookup == Delayed("filter", "vrfs", name, ph, rec, o1)
        create == Delayed("create", "vrfs", payload, ph, rec, o2)
    IN  IF name = <<>> THEN Resolved(store, <<>>, 0, NoId)
        ELSE IF Failed(o1) THEN Resolved(store, lookup, 1, NoId)
        ELSE IF vrfs # {} THEN Resolved(store, lookup, 0, FirstId(vrfs))
        ELSE IF dry THEN Resolved(store, lookup, 0, NoId)
        ELSE IF Failed(o2) THEN Resolved(store, lookup \o create, 1, NoId)
        ELSE Resolved(Created(store, "vrfs", payload), lookup \o create, 0,
                      store.next_id)

\* the section_mapping module's table; empty: the section's name is the site's
SECTION_MAPPING == EmptyDict

get_scope_for_section(store, section_name, ph, rec, o) ==
    LET site_name ==
            IF SECTION_MAPPING # EmptyDict
            THEN CacheGet(SECTION_MAPPING, section_name)
            ELSE section_name
        sites == {r \in store.sites : r.name = site_name}
        lookup == Delayed("filter", "sites", site_name, ph, rec, o)
    IN  IF section_name = <<>> \/ site_name = <<>>
        THEN Resolved(store, <<>>, 0, NoId)
        ELSE IF Failed(o) THEN Resolved(store, lookup, 1, NoId)
        ELSE IF sites = {} THEN Resolved(store, lookup, 0, NoId)
        ELSE Resolved(store, lookup, 0, FirstId(sites))

-----------------------------------------------------------------------------
(* migrate_vlans                                                           *)

\* a or b or c
FirstTruthy(xs) ==
    IF \A i \in DOMAIN xs : xs[i] = <<>> THEN <<>>
    ELSE xs[CHOOSE i \in DOMAIN xs : xs[i] # <<>> /\ \A j \in 1..(i - 1) : xs[j] = <<>>]

VlanPrefix == <<"v","l","a","n","-">>

MigrateVlansFetch ==
    /\ prog = "migrate"
    /\ pc = "vlans:fetch"
    /\ \E f1 \in FetchOutcomesNow, f2 \in FetchOutcomesNow :
          LET vlans == phpipam_get(phpipam.vlans, FALSE, f1)
              domains_list == phpipam_get(phpipam.l2domains, FALSE, f2)
              domains ==
                  IF domains_list.raised THEN EmptyDict
                  ELSE DictOfPairs([i \in DOMAIN domains_list.result |->
                          <<domains_list.result[i].id, domains_list.result[i].name>>])
          IN  IF vlans.raised \/ vlans.result = <<>>
              THEN /\ f2 = "ok"
                   /\ faults' = faults - FetchFaults(<<f1>>)
                   /\ log' = log \o <<FetchEv("vlans", "vlans", f1)>>
                   /\ pc' = AfterPhase("vlans")
                   /\ loc' = <<>>
              ELSE /\ FetchFaults(<<f1, f2>>) <= faults
                   /\ faults' = faults - FetchFaults(<<f1, f2>>)
                   /\ log' = log \o <<FetchEv("vlans", "vlans", f1),
                                      FetchEv("l2domains", "vlans", f2)>>
                   /\ pc' = "vlans:loop"
                   /\ loc' = Loop(vlans.result) @@ [domains |-> domains]
    /\ UNCHANGED <<prog, DRY_RUN, phpipam, nb0, nb, SECTIONS_CACHE, VRFS_CACHE,
                   VLANS_CACHE, report, runs, hist>>

\* One iteration of the loop up to the retry loop: next is "continue" when
\* the record is done, "create" when the retry loop starts with the payload.
vlan_iteration(store, cache, dry, domains, v, rec, og, o1, o2) ==
    LET vid_raw == FirstTruthy(<<v.number, v.vlanId, v.id>>)
        vid == ParseInt(vid_raw)
        name == Take(Strip(IF v.name # <<>> THEN v.name
                           ELSE VlanPrefix \o IntToStr(vid), Whitespace),
                     VLAN_NAME_LIMIT)
        phpipam_id == IF v.id # <<>> THEN v.id ELSE IntToStr(vid)
        has_group == v.domainId # <<>> /\ v.domainId \in DOMAIN domains
        groups == IF has_group
                  THEN {g \in store.vlan_groups : g.name = domains[v.domainId]}
                  ELSE {}
        group_id == IF has_group /\ ~Failed(og) /\ groups # {}
                    THEN FirstId(groups) ELSE NoId
        group_evs == IF has_group
                     THEN Delayed("filter", "vlan_groups", domains[v.domainId],
                                  "vlans", rec, og)
                     ELSE <<>>
        group_used == IF has_group /\ Failed(og) THEN 1 ELSE 0
        existing == {r \in store.vlans : r.vid = vid /\ r.group = group_id}
        existing_name == {r \in store.vlans : r.name = name /\ r.group = group_id}
        by_vid == Delayed("filter", "vlans", <<"vid", vid, group_id>>, "vlans", rec, o1)
        by_name == Undelayed("filter", "vlans", <<"name", name, group_id>>, "vlans",
                             rec, o2)
        payload == [vid |-> vid, name |-> name, group |-> group_id]
        \* the code after the existence check, reached when nothing was found
        \* and also when the check raised
        after(evs, used) ==
            IF dry
            THEN Result(store, evs, "created", used)
                    @@ [cache |-> cache, next |-> "continue"]
            ELSE Result(store, evs, "none", used)
                    @@ [cache |-> cache, next |-> "create", payload |-> payload,
                        phpipam_id |-> phpipam_id]
        handled(e) == IF is_connection_error(e) THEN RetrySleep("vlans", rec) ELSE <<>>
    IN  IF vid_raw = <<>> \/ ~IsDigits(vid_raw)
        THEN Result(store, <<>>, "none", 0) @@ [cache |-> cache, next |-> "continue"]
        ELSE IF Failed(o1)
        THEN after(group_evs \o by_vid \o handled(o1), group_used + 1)
        ELSE IF existing # {}
        THEN Result(store, group_evs \o by_vid, "skipped", group_used)
                @@ [cache |-> DictPut(cache, phpipam_id, FirstId(existing)),
                    next |-> "continue"]
        ELSE IF Failed(o2)
        THEN after(group_evs \o by_vid \o by_name \o handled(o2), group_used + 1)
        ELSE IF existing_name # {}
        THEN Result(store, group_evs \o by_vid \o by_name, "skipped", group_used)
                @@ [cache |-> DictPut(cache, phpipam_id, FirstId(existing_name)),
                    next |-> "continue"]
        ELSE after(group_evs \o by_vid \o by_name, group_used)

MigrateVlansRecord ==
    /\ prog = "migrate"
    /\ pc = "vlans:loop"
    /\ loc.idx <= Len(loc.list)
    /\ \E og \in OutcomesNow, o1 \in OutcomesNow, o2 \in OutcomesNow :
          LET r == vlan_iteration(nb, VLANS_CACHE, DRY_RUN, loc.domains,
                                  loc.list[loc.idx], loc.idx, og, o1, o2)
          IN  /\ Apply(r, <<og, o1, o2>>, "vlans", loc.idx)
              /\ VLANS_CACHE' = r.cache
              /\ IF r.next = "continue"
                 THEN /\ pc' = pc
                      /\ loc' = [loc EXCEPT !.idx = @ + 1, !.c = Count(@, r.count)]
                 ELSE /\ pc' = "vlans:create"
                      /\ loc' = loc @@ [attempt |-> 0, payload |-> r.payload,
                                        phpipam_id |-> r.phpipam_id]
    /\ UNCHANGED <<prog, DRY_RUN, phpipam, nb0, SECTIONS_CACHE, VRFS_CACHE, report,
                   runs, hist>>

\* A mutation of EndRetry: a record counted as an error ends the loop.
EndRetryStop(l, which) ==
    [list |-> l.list,
     idx |-> IF which = "errors" THEN Len(l.list) + 1 ELSE l.idx + 1,
     c |-> Count(l.c, which)]
        @@ (IF "domains" \in DOMAIN l THEN [domains |-> l.domains] ELSE <<>>)
        @@ (IF "order" \in DOMAIN l THEN [order |-> l.order] ELSE <<>>)

\* the locals of the loop without those of the retry loop
EndRetry(l, which) ==
    [list |-> l.list, idx |-> l.idx + 1, c |-> Count(l.c, which)]
        @@ (IF "domains" \in DOMAIN l THEN [domains |-> l.domains] ELSE <<>>)
        @@ (IF "order" \in DOMAIN l THEN [order |-> l.order] ELSE <<>>)

\* one attempt of the retry loop: the create call
vlan_attempt(store, cache, payload, phpipam_id, rec, attempt, o) ==
    LET create == Delayed("create", "vlans", payload, "vlans", rec, o)
    IN  IF ~Failed(o)
        THEN Result(Created(store, "vlans", payload), create, "created", 0)
                @@ [cache |-> DictPut(cache, phpipam_id, store.next_id)]
        ELSE IF retry_except(o, attempt) = "retry"
        THEN Result(store, create \o RetrySleep("vlans", rec), "retry", 1)
                @@ [cache |-> cache]
        ELSE Result(store, create, retry_except(o, attempt), 1) @@ [cache |-> cache]

MigrateVlansAttempt ==
    /\ prog = "migrate"
    /\ pc = "vlans:create"
    /\ \E o \in OutcomesNow :
          LET r == vlan_attempt(nb, VLANS_CACHE, loc.payload, loc.phpipam_id,
                                loc.idx, loc.attempt, o)
          IN  /\ Apply(r, <<o>>, "vlans", loc.idx)
              /\ VLANS_CACHE' = r.cache
              /\ IF r.count = "retry"
                 THEN /\ pc' = pc
                      /\ loc' = [loc EXCEPT !.attempt = @ + 1]
                 ELSE /\ pc' = "vlans:loop"
                      /\ loc' = EndRetry(loc, r.count)
    /\ UNCHANGED <<prog, DRY_RUN, phpipam, nb0, SECTIONS_CACHE, VRFS_CACHE, report,
                   runs, hist>>

MigrateVlansComplete == Complete("vlans")

-----------------------------------------------------------------------------
(* migrate_prefixes                                                        *)

\* A mutation of the sort: the subnets stay in the snapshot's order.
unsorted_subnets(subnets) == [i \in DOMAIN subnets |-> i]

\* subnets.sort(key=get_prefix_len): the snapshot's positions, sorted
sorted_subnets(subnets) ==
    SortedPositions(Len(subnets), [i \in DOMAIN subnets |-> get_prefix_len(subnets[i])])

MigratePrefixesFetch ==
    /\ prog = "migrate"
    /\ pc = "prefixes:fetch"
    /\ \E f \in FetchOutcomesNow :
          LET got == phpipam_get(phpipam.subnets, FALSE, f)
              order == sorted_subnets(got.result)
          IN  /\ faults' = faults - FetchFaults(<<f>>)
              /\ log' = log \o <<FetchEv("subnets", "prefixes", f)>>
              /\ IF got.raised \/ got.result = <<>>
                 THEN /\ pc' = AfterPhase("prefixes")
                      /\ loc' = <<>>
                 ELSE /\ pc' = "prefixes:loop"
                      /\ loc' = Loop([i \in DOMAIN order |-> got.result[order[i]]])
                                    @@ [order |-> order]
    /\ UNCHANGED <<prog, DRY_RUN, phpipam, nb0, nb, SECTIONS_CACHE, VRFS_CACHE,
                   VLANS_CACHE, report, runs, hist>>

\* One iteration of the loop up to the retry loop: the references are
\* resolved and the payload is built.
prefix_iteration(store, dry, s, rec, ov1, ov2, os) ==
    LET prefix == s.subnet \o <<"/">> \o s.mask
        section_name == get_section_name(s.sectionId)
        vrf_name == get_vrf_name(s.vrfId)
        vrf == get_or_create_vrf(store, dry, vrf_name, "prefixes", rec, ov1, ov2)
        scope == get_scope_for_section(vrf.nb, section_name, "prefixes", rec, os)
        vlan == IF s.vlanId # <<>> /\ s.vlanId \in DOMAIN VLANS_CACHE
                THEN VLANS_CACHE[s.vlanId] ELSE NoId
        payload == [prefix |-> prefix, vrf |-> vrf.id, scope_id |-> scope.id,
                    vlan |-> vlan]
    IN  IF s.subnet = <<>> \/ s.mask = <<>>
        THEN Result(store, <<>>, "none", 0) @@ [next |-> "continue"]
        ELSE Result(vrf.nb, vrf.evs \o scope.evs, "none", vrf.used + scope.used)
                @@ [next |-> "attempt", payload |-> payload]

MigratePrefixesRecord ==
    /\ prog = "migrate"
    /\ pc = "prefixes:loop"
    /\ loc.idx <= Len(loc.list)
    /\ \E ov1 \in OutcomesNow, ov2 \in OutcomesNow, os \in OutcomesNow :
          LET r == prefix_iteration(nb, DRY_RUN, loc.list[loc.idx],
                                    loc.order[loc.idx], ov1, ov2, os)
          IN  /\ Apply(r, <<ov1, ov2, os>>, "prefixes", loc.order[loc.idx])
              /\ IF r.next = "continue"
                 THEN /\ pc' = pc
                      /\ loc' = [loc EXCEPT !.idx = @ + 1]
                 ELSE /\ pc' = "prefixes:attempt"
                      /\ loc' = loc @@ [attempt |-> 0, payload |-> r.payload]
    /\ UNCHANGED <<prog, DRY_RUN, phpipam, nb0, SECTIONS_CACHE, VRFS_CACHE, VLANS_CACHE,
                   report, runs, hist>>

\* one attempt of the retry loop: the existence check and the create call
prefix_attempt(store, dry, payload, rec, attempt, o1, o2) ==
    LET existing == {r \in store.prefixes :
                        r.prefix = payload.prefix /\ r.vrf = payload.vrf}
        check == Delayed("filter", "prefixes", <<payload.prefix, payload.vrf>>,
                         "prefixes", rec, o1)
        create == Delayed("create", "prefixes", payload, "prefixes", rec, o2)
        except(evs, e) ==
            IF retry_except(e, attempt) = "retry"
            THEN Result(store, evs \o RetrySleep("prefixes", rec), "retry", 1)
            ELSE Result(store, evs, retry_except(e, attempt), 1)
    IN  IF Failed(o1) THEN except(check, o1)
        ELSE IF existing # {} THEN Result(store, check, "skipped", 0)
        ELSE IF dry THEN Result(store, check, "created", 0)
        ELSE IF Failed(o2) THEN except(check \o create, o2)
        ELSE Result(Created(store, "prefixes", payload), check \o create,
                    "created", 0)

MigratePrefixesAttempt ==
    /\ prog = "migrate"
    /\ pc = "prefixes:attempt"
    /\ \E o1 \in OutcomesNow, o2 \in OutcomesNow :
          LET r == prefix_attempt(nb, DRY_RUN, loc.payload, loc.order[loc.idx],
                                  loc.attempt, o1, o2)
          IN  /\ Apply(r, <<o1, o2>>, "prefixes", loc.order[loc.idx])
              /\ IF r.count = "retry"
                 THEN /\ pc' = pc
                      /\ loc' = [loc EXCEPT !.attempt = @ + 1]
                 ELSE /\ pc' = "prefixes:loop"
                      /\ loc' = EndRetry(loc, r.count)
    /\ UNCHANGED <<prog, DRY_RUN, phpipam, nb0, SECTIONS_CACHE, VRFS_CACHE, VLANS_CACHE,
                   report, runs, hist>>

MigratePrefixesComplete == Complete("prefixes")

-----------------------------------------------------------------------------
(* migrate_addresses                                                       *)

MigrateAddressesFetch == Fetch("addresses", "addresses")

address_iteration(store, dry, addr, rec, ov1, ov2) ==
    LET mask == IF ":" \notin Range(addr.ip) THEN <<"3","2">> ELSE <<"1","2","8">>
        address == addr.ip \o <<"/">> \o mask
        vrf_name == get_vrf_name(addr.vrfId)
        vrf == get_or_create_vrf(store, dry, vrf_name, "addresses", rec, ov1, ov2)
        payload == [address |-> address, vrf |-> vrf.id]
    IN  IF addr.ip = <<>>
        THEN Result(store, <<>>, "none", 0) @@ [next |-> "continue"]
        ELSE Result(vrf.nb, vrf.evs, "none", vrf.used)
                @@ [next |-> "attempt", payload |-> payload, ip |-> addr.ip]

MigrateAddressesRecord ==
    /\ prog = "migrate"
    /\ pc = "addresses:loop"
    /\ loc.idx <= Len(loc.list)
    /\ \E ov1 \in OutcomesNow, ov2 \in OutcomesNow :
          LET r == address_iteration(nb, DRY_RUN, loc.list[loc.idx], loc.idx,
                                     ov1, ov2)
          IN  /\ Apply(r, <<ov1, ov2>>, "addresses", loc.idx)
              /\ IF r.next = "continue"
                 THEN /\ pc' = pc
                      /\ loc' = [loc EXCEPT !.idx = @ + 1]
                 ELSE /\ pc' = "addresses:attempt"
                      /\ loc' = loc @@ [attempt |-> 0, payload |-> r.payload,
                                        ip |-> r.ip]
    /\ UNCHANGED <<prog, DRY_RUN, phpipam, nb0, SECTIONS_CACHE, VRFS_CACHE, VLANS_CACHE,
                   report, runs, hist>>

\* the host part of a stored address: the target's address filter matches it
HostOf(address) == SplitOn(address, "/")[1]

address_attempt(store, dry, payload, ip, rec, attempt, o1, o2) ==
    LET existing == {r \in store.ip_addresses :
                        HostOf(r.address) = ip /\ r.vrf = payload.vrf}
        check == Delayed("filter", "ip_addresses", <<ip, payload.vrf>>,
                         "addresses", rec, o1)
        create == Delayed("create", "ip_addresses", payload, "addresses", rec, o2)
        except(evs, e) ==
            IF retry_except(e, attempt) = "retry"
            THEN Result(store, evs \o RetrySleep("addresses", rec), "retry", 1)
            ELSE Result(store, evs, retry_except(e, attempt), 1)
    IN  IF Failed(o1) THEN except(check, o1)
        ELSE IF existing # {} THEN Result(store, check, "skipped", 0)
        ELSE IF dry THEN Result(store, check, "created", 0)
        ELSE IF Failed(o2) THEN except(check \o create, o2)
        ELSE Result(Created(store, "ip_addresses", payload), check \o create,
                    "created", 0)

MigrateAddressesAttempt ==
    /\ prog = "migrate"
    /\ pc = "addresses:attempt"
    /\ \E o1 \in OutcomesNow, o2 \in OutcomesNow :
          LET r == address_attempt(nb, DRY_RUN, loc.payload, loc.ip, loc.idx,
                                   loc.attempt, o1, o2)
          IN  /\ Apply(r, <<o1, o2>>, "addresses", loc.idx)
              /\ IF r.count = "retry"
                 THEN /\ pc' = pc
                      /\ loc' = [loc EXCEPT !.attempt = @ + 1]
                 ELSE /\ pc' = "addresses:loop"
                      /\ loc' = EndRetry(loc, r.count)
    /\ UNCHANGED <<prog, DRY_RUN, phpipam, nb0, SECTIONS_CACHE, VRFS_CACHE, VLANS_CACHE,
                   report, runs, hist>>

MigrateAddressesComplete == Complete("addresses")

-----------------------------------------------------------------------------
(* main, and the script run again on the same snapshot                     *)

\* the target collection each phase migrates its records to
CollectionOf(ph) == IF ph = "addresses" THEN "ip_addresses" ELSE ph

\* What a finished run leaves to compare later runs with: its mode, the
\* target it started from, the counters it reported and, per phase, the
\* create calls it made for the phase's own records.
Summary ==
    [dry |-> DRY_RUN, start |-> nb0, report |-> report,
     creates |-> [k \in Range(Phases) |->
                     CountEv(log, "create", CollectionOf(k), k)]]

\* "Migration Complete!"
MainComplete ==
    /\ prog = "migrate"
    /\ pc = "complete"
    /\ hist' = Append(hist, Summary)
    /\ pc' = "exit"
    /\ UNCHANGED <<prog, DRY_RUN, phpipam, nb0, nb, SECTIONS_CACHE, VRFS_CACHE,
                   VLANS_CACHE, loc, log, faults, report, runs>>

\* The script is started again: a new process, with its globals as the
\* module sets them, against the same source and the target as it is now.
RunAgain ==
    /\ prog = "migrate"
    /\ pc = "exit"
    /\ runs # <<>>
    /\ DRY_RUN' = Head(runs)
    /\ runs' = Tail(runs)
    /\ SECTIONS_CACHE' = EmptyDict
    /\ VRFS_CACHE' = EmptyDict
    /\ VLANS_CACHE' = EmptyDict
    /\ pc' = "build_caches"
    /\ loc' = <<>>
    /\ log' = <<>>
    /\ report' = EmptyDict
    /\ nb0' = nb
    /\ UNCHANGED <<prog, phpipam, nb, faults, hist>>

-----------------------------------------------------------------------------
(* create_netbox_sites.py: create_sites                                    *)

CreateSitesStart ==
    /\ prog = "create_sites"
    /\ pc = "start"
    /\ \E f \in FetchOutcomesNow :
          /\ faults' = faults - FetchFaults(<<f>>)
          /\ log' = log \o <<FetchEv("sections", "sites", f)>>
          /\ IF f = "ok"
             THEN /\ pc' = "sites:loop"
                  /\ loc' = Loop(phpipam.sections)
                                @@ [used_slugs |-> {},
                                    existing_sites |-> {r.name : r \in nb.sites}]
             ELSE \* get_phpipam_sections raises and nothing catches it
                  /\ pc' = "exit"
                  /\ loc' = <<>>
    /\ UNCHANGED <<prog, DRY_RUN, phpipam, nb0, nb, SECTIONS_CACHE, VRFS_CACHE,
                   VLANS_CACHE, report, runs, hist>>

\* The loop body up to "base_slug = make_slug(name)": the section is skipped
\* or the collision loop starts.
CreateSitesSection ==
    /\ prog = "create_sites"
    /\ pc = "sites:loop"
    /\ loc.idx <= Len(loc.list)
    /\ LET name == Strip(loc.list[loc.idx].name, Whitespace)
       IN  IF name = <<>> \/ name \in loc.existing_sites
           THEN /\ pc' = pc
                /\ loc' = [loc EXCEPT !.idx = @ + 1, !.c = Count(@, "skipped")]
                /\ log' = log \o Counted("skipped", "sites", loc.idx)
           ELSE /\ pc' = "sites:while"
                /\ log' = log
                /\ loc' = loc @@ [name |-> name,
                                  base_slug |-> sites_make_slug(name),
                                  slug |-> sites_make_slug(name),
                                  counter |-> 1]
    /\ UNCHANGED <<prog, DRY_RUN, phpipam, nb0, nb, SECTIONS_CACHE, VRFS_CACHE,
                   VLANS_CACHE, faults, report, runs, hist>>

\* one iteration of "while slug in used_slugs"
CreateSitesWhile ==
    /\ prog = "create_sites"
    /\ pc = "sites:while"
    /\ loc.slug \in loc.used_slugs
    /\ loc.counter <= MaxCounter
    /\ loc' = [loc EXCEPT !.slug = suffixed_slug(loc.base_slug, loc.counter),
                          !.counter = @ + 1]
    /\ UNCHANGED <<prog, DRY_RUN, phpipam, nb0, nb, SECTIONS_CACHE, VRFS_CACHE,
                   VLANS_CACHE, pc, log, faults, report, runs, hist>>

\* the locals of the loop without those of one section
EndSection(l, which) ==
    [list |-> l.list, idx |-> l.idx + 1, c |-> Count(l.c, which),
     used_slugs |-> l.used_slugs \cup {l.slug},
     existing_sites |-> l.existing_sites]

\* the rest of the loop body, from "used_slugs.add(slug)"
CreateSitesCreate ==
    /\ prog = "create_sites"
    /\ pc = "sites:while"
    /\ loc.slug \notin loc.used_slugs
    /\ \E o \in OutcomesNow :
          LET payload == [name |-> Take(loc.name, NAME_LIMIT), slug |-> loc.slug]
              create == Undelayed("create", "sites", payload, "sites", loc.idx, o)
          IN  IF DRY_RUN
              THEN /\ o = OK
                   /\ UNCHANGED <<nb, faults>>
                   /\ log' = log \o Counted("created", "sites", loc.idx)
                   /\ loc' = EndSection(loc, "created")
              ELSE IF Failed(o)
              THEN /\ faults' = faults - 1
                   /\ nb' = nb
                   /\ log' = log \o create \o Counted("errors", "sites", loc.idx)
                   /\ loc' = EndSection(loc, "errors")
              ELSE /\ faults' = faults
                   /\ nb' = Created(nb, "sites", payload)
                   /\ log' = log \o create \o Counted("created", "sites", loc.idx)
                   /\ loc' = EndSection(loc, "created")
    /\ pc' = "sites:loop"
    /\ UNCHANGED <<prog, DRY_RUN, phpipam, nb0, SECTIONS_CACHE, VRFS_CACHE, VLANS_CACHE,
                   report, runs, hist>>

\* the summary after the loop
CreateSitesSummary ==
    /\ prog = "create_sites"
    /\ pc = "sites:loop"
    /\ loc.idx > Len(loc.list)
    /\ report' = DictPut(report, "sites", loc.c)
    /\ pc' = "exit"
    /\ UNCHANGED <<prog, DRY_RUN, phpipam, nb0, nb, SECTIONS_CACHE, VRFS_CACHE,
                   VLANS_CACHE, loc, log, faults, runs, hist>>

-----------------------------------------------------------------------------
(* The two make_slug functions called on their own.                        *)

MakeSlugCall ==
    /\ prog = "make_slug"
    /\ pc = "call"
    /\ loc' = loc @@ [slug |-> make_slug(loc.name),
                      site_slug |-> sites_make_slug(loc.name)]
    /\ pc' = "return"
    /\ UNCHANGED <<prog, DRY_RUN, phpipam, nb0, nb, SECTIONS_CACHE, VRFS_CACHE,
                   VLANS_CACHE, log, faults, report, runs, hist>>

-----------------------------------------------------------------------------
(* phpipam_get called on its own, with required true or false.             *)

PhpipamGetCall ==
    /\ prog = "phpipam_get"
    /\ pc = "call"
    /\ loc' = loc @@ [got |-> phpipam_get(loc.data, loc.required, loc.outcome)]
    /\ pc' = "return"
    /\ UNCHANGED <<prog, DRY_RUN, phpipam, nb0, nb, SECTIONS_CACHE, VRFS_CACHE,
                   VLANS_CACHE, log, faults, report, runs, hist>>

-----------------------------------------------------------------------------
(* The source snapshots and the targets the scripts are run against.       *)

CORP == <<"C","O","R","P">>
\* a name one character longer than the target's limit for names
LONG_NAME == Rep("x", NAME_LIMIT + 1)
DC1 == <<"D","C","1">>
SRV == <<"s","r","v">>

SectionRecs == {[id |-> <<"5">>, name |-> DC1]}

VrfRecs ==
    {[vrfId |-> <<"1">>, name |-> CORP],
     [vrfId |-> <<"2">>, name |-> LONG_NAME]}

DomainRecs ==
    {[id |-> <<"1">>, name |-> <<"A"," ","b">>],
     [id |-> <<"2">>, name |-> <<"a","_","b">>]}

VlanRecs ==
    {[id |-> <<"1","2">>, number |-> <<"1","0">>, vlanId |-> <<>>,
      name |-> SRV, domainId |-> <<"1">>],
     [id |-> <<"1","3">>, number |-> <<"2","0">>, vlanId |-> <<>>,
      name |-> SRV, domainId |-> <<"1">>],
     [id |-> <<>>, number |-> <<"1","2">>, vlanId |-> <<>>,
      name |-> <<>>, domainId |-> <<>>]}

SubnetRecs ==
    {[subnet |-> <<"1","0",".","0",".","0",".","0">>, mask |-> <<"8">>,
      sectionId |-> <<"5">>, vrfId |-> <<"1">>, vlanId |-> <<"1","2">>],
     [subnet |-> <<"1","0",".","1",".","0",".","0">>, mask |-> <<"2","4">>,
      sectionId |-> <<>>, vrfId |-> <<"1">>, vlanId |-> <<>>],
     [subnet |-> <<"1","0",".","2",".","0",".","0">>, mask |-> <<"2","4">>,
      sectionId |-> <<>>, vrfId |-> <<>>, vlanId |-> <<>>],
     [subnet |-> <<"1","0",".","3","0","0",".","0",".","0">>, mask |-> <<"8">>,
      sectionId |-> <<>>, vrfId |-> <<>>, vlanId |-> <<>>]}

AddressRecs ==
    {[ip |-> <<"1","0",".","0",".","0",".","5">>, vrfId |-> <<"1">>],
     [ip |-> <<":",":","1">>, vrfId |-> <<>>],
     [ip |-> <<>>, vrfId |-> <<>>]}

Snapshot(sections, vrfs, l2domains, vlans, subnets, addresses) ==
    [sections |-> sections, vrfs |-> vrfs, l2domains |-> l2domains,
     vlans |-> vlans, subnets |-> subnets, addresses |-> addresses]

EmptyTarget ==
    [vrfs |-> {}, vlan_groups |-> {}, vlans |-> {}, prefixes |-> {},
     ip_addresses |-> {}, sites |-> {}, next_id |-> 1]

\* a target that create_sites and an earlier import have written to
PopulatedTarget ==
    [vrfs |-> {[id |-> 2, name |-> CORP]},
     vlan_groups |-> {},
     vlans |-> {[id |-> 3, vid |-> 10, name |-> SRV, group |-> NoId]},
     prefixes |-> {[id |-> 4, prefix |-> <<"1","0",".","0",".","0",".","0","/","8">>,
                    vrf |-> NoId, scope_id |-> NoId, vlan |-> NoId]},
     ip_addresses |-> {},
     sites |-> {[id |-> 1, name |-> DC1]},
     next_id |-> 5]

Targets == {EmptyTarget, PopulatedTarget}

\* the globals and locals of a script that has just been started
Started(script, at) ==
    /\ prog = script
    /\ pc = at
    /\ SECTIONS_CACHE = EmptyDict
    /\ VRFS_CACHE = EmptyDict
    /\ VLANS_CACHE = EmptyDict
    /\ log = <<>>
    /\ report = EmptyDict
    /\ hist = <<>>

\* The snapshots of at most n records, the sections aside.
Snapshots(n) ==
    UNION {UNION {UNION {UNION {
        {Snapshot(sections, vrfs, l2domains, vlans, subnets, addresses) :
            addresses \in SeqsUpTo(AddressRecs,
                            n - Len(vrfs) - Len(l2domains) - Len(vlans)
                              - Len(subnets)),
            sections \in [1..1 -> SectionRecs]} :
        subnets \in SeqsUpTo(SubnetRecs,
                        n - Len(vrfs) - Len(l2domains) - Len(vlans))} :
        vlans \in SeqsUpTo(VlanRecs, n - Len(vrfs) - Len(l2domains))} :
        l2domains \in SeqsUpTo(DomainRecs, n - Len(vrfs))} :
        vrfs \in SeqsUpTo(VrfRecs, n)}

\* the records a snapshot may hold when f remote calls may fail: MaxRecs
\* when none does, one fewer for each call that may fail, and at least one
RecsFor(f) == IF MaxRecs - f < 1 THEN 1 ELSE MaxRecs - f

\* migrate_phpipam_to_netbox.py is started, once or twice in a row
Init ==
    /\ Started("migrate", "build_caches")
    /\ loc = <<>>
    /\ DRY_RUN \in BOOLEAN
    /\ faults \in 0..MaxFaults
    \* a second, live run follows when no remote call fails
    /\ runs \in IF faults = 0 THEN {<<>>, <<FALSE>>} ELSE {<<>>}
    /\ nb \in Targets
    /\ nb0 = nb
    /\ phpipam \in Snapshots(RecsFor(faults))

Next ==
    \/ BuildCaches
    \/ MigrateVrfsFetch
    \/ MigrateVrfsRecord
    \/ MigrateVrfsComplete
    \/ MigrateVlanGroupsFetch
    \/ MigrateVlanGroupsRecord
    \/ MigrateVlanGroupsComplete
    \/ MigrateVlansFetch
    \/ MigrateVlansRecord
    \/ MigrateVlansAttempt
    \/ MigrateVlansComplete
    \/ MigratePrefixesFetch
    \/ MigratePrefixesRecord
    \/ MigratePrefixesAttempt
    \/ MigratePrefixesComplete
    \/ MigrateAddressesFetch
    \/ MigrateAddressesRecord
    \/ MigrateAddressesAttempt
    \/ MigrateAddressesComplete
    \/ MainComplete
    \/ RunAgain

Spec == Init /\ [][Next]_vars

-----------------------------------------------------------------------------
(* The slug specification: make_slug on its own, and create_sites.         *)

SlugAlphabet == {"A", "b", "7", " ", "_", "-", "!"}

\* a short free prefix followed by a run of one character, up to and past
\* the slug limit
SlugNames ==
    {pre \o Rep(ch, n) :
        pre \in SeqsUpTo(SlugAlphabet, MaxPre),
        ch \in SlugAlphabet,
        n \in {0, SLUG_LIMIT - 1, SLUG_LIMIT, SLUG_LIMIT + 1}}

SiteNames ==
    {<<"A"," ","b">>, <<"a","_","b">>, <<"!","!">>, <<" ">>,
     Rep("a", SLUG_LIMIT - 1), Rep("A", SLUG_LIMIT - 1),
     Rep("a", SLUG_LIMIT), Rep("A", SLUG_LIMIT)}

SiteSectionRecs == {[id |-> <<"5">>, name |-> n] : n \in SiteNames}

SiteTargets ==
    {EmptyTarget,
     [EmptyTarget EXCEPT !.sites = {[id |-> 1, name |-> <<"A"," ","b">>]},
                         !.next_id = 2]}

InitSlug ==
    /\ runs = <<>>
    /\ \/ /\ Started("make_slug", "call")
          /\ loc \in {[name |-> n] : n \in SlugNames}
          /\ DRY_RUN = FALSE
          /\ faults = 0
          /\ nb = EmptyTarget
          /\ nb0 = nb
          /\ phpipam = Snapshot(<<>>, <<>>, <<>>, <<>>, <<>>, <<>>)
       \/ /\ Started("create_sites", "start")
          /\ loc = <<>>
          /\ DRY_RUN \in BOOLEAN
          /\ faults \in 0..1
          /\ nb \in SiteTargets
          /\ nb0 = nb
          /\ \E sections \in SeqsUpTo(SiteSectionRecs, MaxSections) :
                phpipam = Snapshot(sections, <<>>, <<>>, <<>>, <<>>, <<>>)

NextSlug ==
    \/ MakeSlugCall
    \/ CreateSitesStart
    \/ CreateSitesSection
    \/ CreateSitesWhile
    \/ CreateSitesCreate
    \/ CreateSitesSummary

SpecSlug == InitSlug /\ [][NextSlug]_vars

-----------------------------------------------------------------------------
(* The fetch specification: phpipam_get on its own.                        *)

\* the collections the source may hold behind an endpoint
FetchData == SeqsUpTo(VrfRecs \cup DomainRecs, MaxPre)

InitGet ==
    /\ Started("phpipam_get", "call")
    /\ loc \in [data : FetchData, required : BOOLEAN, outcome : FetchOutcomes]
    /\ runs = <<>>
    /\ DRY_RUN = FALSE
    /\ faults = 0
    /\ nb = EmptyTarget
    /\ nb0 = nb
    /\ phpipam = Snapshot(<<>>, <<>>, <<>>, <<>>, <<>>, <<>>)

NextGet == PhpipamGetCall

SpecGet == InitGet /\ [][NextGet]_vars

-----------------------------------------------------------------------------
(* What the properties below read off the log and the run summaries.       *)

\* the run that is under way or has just finished: 1 or 2
RunNo == IF pc = "exit" THEN Len(hist) ELSE Len(hist) + 1

\* the counters a run reported for a kind; a phase that returned before its
\* loop reported nothing and created nothing
Reported(rep, k) == IF k \in DOMAIN rep THEN rep[k] ELSE Zero

\* the create calls made for the record at position rec of the phase ph,
\* on the phase's own collection
CreatesOf(ph, rec) ==
    {i \in DOMAIN log : /\ log[i].op = "create"
                        /\ log[i].ph = ph
                        /\ log[i].rec = rec
                        /\ log[i].coll = CollectionOf(ph)}

\* the counter increments made for the record
CountsOf(ph, rec) ==
    {i \in DOMAIN log : log[i].op = "count" /\ log[i].ph = ph /\ log[i].rec = rec}

IsTransient(e) == Failed(e) /\ is_connection_error(e) /\ ~is_validation_error(e)

IsAlreadyExists(e) == e.type = "RequestError" /\ SaysAlreadyExists(e)

-----------------------------------------------------------------------------
(* C1 *)

\* C1: Idempotence.  When the live migration is run twice on the same
\* snapshot, starting from an empty target and with no remote failure, the
\* second run issues no create call, for any kind, and reports nothing as
\* created.
C1_SecondRunCreatesNothing ==
    (/\ prog = "migrate"
     /\ RunNo = 2
     /\ ~hist[1].dry
     /\ hist[1].start = EmptyTarget
     /\ ~DRY_RUN)
    => /\ \A i \in DOMAIN log : log[i].op # "create"
       /\ \A k \in DOMAIN report : report[k].created = 0

-----------------------------------------------------------------------------
(* C2 *)

\* C2: Dry-run purity.  While DRY_RUN is on, no create or update call has
\* been issued to the target in the run, and the target is as the run found
\* it, whatever the snapshot, the target and the failures are.
C2_DryRunMutatesNothing ==
    (prog = "migrate" /\ DRY_RUN)
    => /\ \A i \in DOMAIN log : log[i].op \notin {"create", "update"}
       /\ nb = nb0

\* A dry run has finished in which the prefix phase looked a VRF up through
\* get_or_create_vrf, did not find it, and counted a prefix as created.
C2_Witness ==
    /\ prog = "migrate"
    /\ DRY_RUN
    /\ pc = "exit"
    /\ Reported(report, "prefixes").created >= 1
    /\ \E i \in DOMAIN log :
          /\ log[i].op = "filter"
          /\ log[i].coll = "vrfs"
          /\ log[i].ph = "prefixes"
          /\ log[i].res = OK
          /\ \A r \in nb.vrfs : r.name # log[i].arg

-----------------------------------------------------------------------------
(* C3 *)

\* C3: Dry-run counters.  The created counter a dry run reports for a kind
\* equals the number of create calls a live run on the same snapshot and the
\* same target makes for that kind (no remote failure).
C3_DryCountersMatchLiveCreates ==
    (/\ prog = "migrate"
     /\ Len(hist) = 2
     /\ hist[1].dry
     /\ ~hist[2].dry
     /\ hist[2].start = hist[1].start)
    => \A k \in Range(Phases) :
          Reported(hist[1].report, k).created = hist[2].creates[k]

-----------------------------------------------------------------------------
(* C4 *)

\* C4: Retry to success.  In a live run, for every kind, a record whose
\* create call fails with a transient error is tried again until the third
\* attempt: no record is counted while its create attempts, fewer than
\* three, all failed with transient errors, and a record whose create failed
\* twice with a transient error and then succeeded is counted as created.
C4_TransientCreateIsRetried ==
    (prog = "migrate" /\ ~DRY_RUN)
    => \A c \in DOMAIN log :
          log[c].op = "count"
          => LET tries == CreatesOf(log[c].ph, log[c].rec)
                 transient == {i \in tries : IsTransient(log[i].res)}
             IN  /\ (tries # {} /\ transient = tries)
                        => Cardinality(tries) = RETRY_ATTEMPTS
                 /\ (/\ Cardinality(tries) = RETRY_ATTEMPTS
                     /\ Cardinality(transient) = RETRY_ATTEMPTS - 1
                     /\ \E i \in tries : log[i].res = OK)
                        => log[c].coll = "created"

-----------------------------------------------------------------------------
(* C5 *)

\* C5: Already-exists is a skip without retry.  For every kind, when the
\* first create call for a record is rejected with a message saying "already
\* exists", that call is the record's only create call, and the one counter
\* incremented for the record, right after the call, is skipped.
C5_AlreadyExistsIsSkipped ==
    prog = "migrate"
    => \A i \in DOMAIN log :
          (/\ log[i].op = "create"
           /\ log[i].coll = CollectionOf(log[i].ph)
           /\ IsAlreadyExists(log[i].res)
           /\ \A j \in CreatesOf(log[i].ph, log[i].rec) : i <= j)
          => /\ CreatesOf(log[i].ph, log[i].rec) = {i}
             /\ i < Len(log)
             /\ CountsOf(log[i].ph, log[i].rec) = {i + 1}
             /\ log[i + 1].coll = "skipped"

\* The create of a VLAN, of a prefix or of an address was rejected as
\* already existing.
C5_Witness ==
    /\ prog = "migrate"
    /\ \E i \in DOMAIN log :
          /\ log[i].op = "create"
          /\ log[i].ph \in {"vlans", "prefixes", "addresses"}
          /\ log[i].coll = CollectionOf(log[i].ph)
          /\ IsAlreadyExists(log[i].res)

-----------------------------------------------------------------------------
(* C6 *)

\* the prefix length of the subnet at position k of the snapshot, when
\* ip_network accepts the subnet
HasPrefixLen(k) == IsIPv4Network(phpipam.subnets[k].subnet, phpipam.subnets[k].mask)
PrefixLenOf(k) == ParseInt(phpipam.subnets[k].mask)

\* the subnet at position a of the snapshot goes before the one at position b
GoesBefore(a, b) ==
    /\ HasPrefixLen(a)
    /\ HasPrefixLen(b)
    /\ \/ PrefixLenOf(a) < PrefixLenOf(b)
       \/ PrefixLenOf(a) = PrefixLenOf(b) /\ a < b

\* C6: Prefix ordering.  Of two subnets with prefix lengths p1 < p2, every
\* call migrate_prefixes makes for the p1 subnet comes before every call it
\* makes for the p2 subnet, wherever they are in the snapshot; subnets of the
\* same prefix length are processed in the snapshot's order.
C6_BroaderPrefixesFirst ==
    prog = "migrate"
    => LET calls == {i \in DOMAIN log : log[i].ph = "prefixes" /\ log[i].rec > 0}
       IN  \A a \in {log[i].rec : i \in calls}, b \in {log[i].rec : i \in calls} :
              GoesBefore(a, b)
              => \A i \in calls, j \in calls :
                    (log[i].rec = a /\ log[j].rec = b) => i < j

\* A narrower subnet precedes a broader one in the snapshot, and the
\* existence checks of both have been made.
C6_Witness ==
    /\ prog = "migrate"
    /\ \E i \in DOMAIN log, j \in DOMAIN log :
          /\ log[i].ph = "prefixes"
          /\ log[j].ph = "prefixes"
          /\ log[i].op = "filter"
          /\ log[j].op = "filter"
          /\ log[i].coll = "prefixes"
          /\ log[j].coll = "prefixes"
          /\ log[j].rec < log[i].rec
          /\ HasPrefixLen(log[i].rec)
          /\ HasPrefixLen(log[j].rec)
          /\ PrefixLenOf(log[i].rec) < PrefixLenOf(log[j].rec)

-----------------------------------------------------------------------------
(* C7 *)

\* C7: Reference caching.  Within one run, the prefix and address phases
\* look a VRF name up in the target at most once, however many prefixes and
\* addresses refer to it.
C7_OneVrfLookupPerName ==
    prog = "migrate"
    => \A i \in DOMAIN log, j \in DOMAIN log :
          (/\ log[i].op = "filter"
           /\ log[j].op = "filter"
           /\ log[i].coll = "vrfs"
           /\ log[j].coll = "vrfs"
           /\ log[i].ph \in {"prefixes", "addresses"}
           /\ log[j].ph \in {"prefixes", "addresses"}
           /\ log[i].arg = log[j].arg)
          => i = j

-----------------------------------------------------------------------------
(* C8 *)

\* C8: Slug validity.  For every display name, the slug either make_slug
\* returns, and every slug create_sites sends in a create payload (with or
\* without the collision suffix), is non-empty, at most 50 characters long
\* and made of the characters a-z, 0-9 and "-" only.
C8_SlugsAreValid ==
    /\ (prog = "make_slug" /\ pc = "return")
          => ValidSlug(loc.slug) /\ ValidSlug(loc.site_slug)
    /\ prog = "create_sites"
          => \A i \in DOMAIN log :
                log[i].op = "create" => ValidSlug(log[i].arg.slug)

\* make_slug has returned the slug of a name that normalises to more than 50
\* characters.
C8_Witness ==
    /\ prog = "make_slug"
    /\ pc = "return"
    /\ Len(SlugNormal(loc.name)) > SLUG_LIMIT
    /\ Len(loc.slug) = SLUG_LIMIT

-----------------------------------------------------------------------------
(* C9 *)

\* C9: Slug uniqueness within a run.  The slugs sent in the create payloads
\* of one run, for VLAN groups and for sites, are pairwise distinct.
C9_SlugsAreDistinct ==
    \A i \in DOMAIN log, j \in DOMAIN log :
        (/\ i < j
         /\ log[i].op = "create"
         /\ log[j].op = "create"
         /\ log[i].coll \in {"vlan_groups", "sites"}
         /\ log[j].coll = log[i].coll)
        => log[i].arg.slug # log[j].arg.slug

-----------------------------------------------------------------------------
(* C10 *)

MainOrder == <<"build_caches", "vrfs", "vlan_groups", "vlans", "prefixes",
               "addresses">>

OrderNo(ph) == CHOOSE i \in DOMAIN MainOrder : MainOrder[i] = ph

\* the place in main's order of the statement the script is at; past the
\* last phase once main is through
PcNo ==
    IF pc \in {"complete", "exit"} THEN Len(MainOrder) + 1
    ELSE CHOOSE i \in DOMAIN MainOrder :
            pc \in {MainOrder[i], MainOrder[i] \o ":fetch", MainOrder[i] \o ":loop",
                    MainOrder[i] \o ":create", MainOrder[i] \o ":attempt"}

EndpointOf(ph) ==
    CASE ph = "vlan_groups" -> "l2domains"
      [] ph = "prefixes" -> "subnets"
      [] OTHER -> ph

\* whether the loop of the phase counts the record r
HasKey(ph, r) ==
    CASE ph \in {"vrfs", "vlan_groups"} -> Strip(r.name, Whitespace) # <<>>
      [] ph = "vlans" -> IsDigits(FirstTruthy(<<r.number, r.vlanId, r.id>>))
      [] ph = "prefixes" -> r.subnet # <<>> /\ r.mask # <<>>
      [] ph = "addresses" -> r.ip # <<>>

\* the phase has returned: its fetch gave nothing, or its loop has counted
\* every record of its snapshot and the phase has reported
PhaseOver(ph) ==
    IF ph \in DOMAIN report
    THEN \A k \in DOMAIN phpipam[EndpointOf(ph)] :
            \/ \E i \in DOMAIN log :
                  log[i].op = "count" /\ log[i].ph = ph /\ log[i].rec = k
            \/ ~HasKey(ph, phpipam[EndpointOf(ph)][k])
    ELSE \E i \in DOMAIN log :
            /\ log[i].op = "get"
            /\ log[i].ph = ph
            /\ log[i].coll = EndpointOf(ph)
            /\ (Failed(log[i].res) \/ phpipam[EndpointOf(ph)] = <<>>)

\* C10: Phase order.  main runs build_caches and then the VRF, VLAN-group,
\* VLAN, prefix and address phases in that order: no fetch or call of
\* the run is followed by one of an earlier phase, and while a phase is under way
\* every earlier phase has returned, having counted every record of its
\* snapshot (so that the VLANs are all migrated before the first prefix is).
C10_PhasesInOrder ==
    prog = "migrate"
    => /\ \A i \in DOMAIN log :
             i > 1 => OrderNo(log[i - 1].ph) <= OrderNo(log[i].ph)
       /\ log # <<>> => OrderNo(log[Len(log)].ph) <= PcNo
       /\ \A n \in 2..(PcNo - 1) : PhaseOver(MainOrder[n])

\* The prefix phase makes a call after the VLAN phase has counted a VLAN.
C10_Witness ==
    /\ prog = "migrate"
    /\ \E i \in DOMAIN log, j \in DOMAIN log :
          /\ log[i].ph = "vlans"
          /\ log[i].op = "count"
          /\ log[j].ph = "prefixes"
          /\ log[j].op = "filter"

-----------------------------------------------------------------------------
(* C11 *)

\* the fetch of the phase ph has been made
Fetched(ph) ==
    \E i \in DOMAIN log : log[i].op = "get" /\ log[i].ph = ph

\* the loop of the phase ph has counted every record of its snapshot
AllCounted(ph) ==
    \A k \in DOMAIN phpipam[EndpointOf(ph)] :
        \/ \E i \in DOMAIN log :
              log[i].op = "count" /\ log[i].ph = ph /\ log[i].rec = k
        \/ ~HasKey(ph, phpipam[EndpointOf(ph)][k])

\* C11: A per-record failure never stops a kind's loop.  When a target call
\* made for a record (a reference lookup, an existence check or a create)
\* has failed, with whatever error, the phase still returns only after its
\* loop has counted every record of the snapshot, and every later phase is
\* still started.
C11_FailureNeverStopsTheLoop ==
    prog = "migrate"
    => \A i \in DOMAIN log :
          (log[i].op \in {"filter", "create"} /\ Failed(log[i].res))
          => LET n == OrderNo(log[i].ph)
             IN  PcNo > n
                 => /\ log[i].ph \in DOMAIN report
                    /\ AllCounted(log[i].ph)
                    /\ \A m \in (n + 1)..Min(PcNo, Len(MainOrder)) :
                          m < PcNo => Fetched(MainOrder[m])

\* The run is through; a target call for the first VLAN of the snapshot
\* failed, the second VLAN was counted and the address phase was started.
C11_Witness ==
    /\ prog = "migrate"
    /\ pc = "exit"
    /\ Fetched("addresses")
    /\ \E i \in DOMAIN log, j \in DOMAIN log :
          /\ log[i].ph = "vlans"
          /\ log[i].rec = 1
          /\ log[i].op \in {"filter", "create"}
          /\ Failed(log[i].res)
          /\ log[j].ph = "vlans"
          /\ log[j].rec = 2
          /\ log[j].op = "count"

-----------------------------------------------------------------------------
(* C12 *)

\* the existence checks made for the record of the call log[i], on the
\* collection of that call, before it
ChecksBefore(i) ==
    {j \in 1..(i - 1) : /\ log[j].op = "filter"
                        /\ log[j].coll = log[i].coll
                        /\ log[j].ph = log[i].ph
                        /\ log[j].rec = log[i].rec}

\* the last existence check before the call log[i] was made and succeeded
LastCheckSucceeded(i) ==
    /\ ChecksBefore(i) # {}
    /\ \A j \in ChecksBefore(i) :
          (\A k \in ChecksBefore(i) : k <= j) => log[j].res = OK

\* C12: Check before create.  Every create call is preceded, in the same
\* run and for the same record, by an existence lookup on the same
\* collection, and the last such lookup before the create succeeded: no
\* create is issued for a record whose existence check failed.
C12_CreateFollowsSuccessfulCheck ==
    prog = "migrate"
    => \A i \in DOMAIN log :
          log[i].op = "create" => LastCheckSucceeded(i)

-----------------------------------------------------------------------------
(* C13 *)

\* the create log[i] of a record of the phase was rejected with a
\* semantic / validation error
IsRejectedCreate(i) ==
    /\ log[i].op = "create"
    /\ log[i].coll = CollectionOf(log[i].ph)
    /\ log[i].res.type = "RequestError"
    /\ is_validation_error(log[i].res)

\* the words by which a rejection says that the record is there already
ConflictWords == {"already exists", "duplicate", "unique constraint"}

\* C13: Semantic rejection outcome.  For every kind, a create rejected with
\* a validation error is the record's last create call and the record is
\* counted right after it: as skipped when the message says "already
\* exists", as an error when the message names no conflict at all (for
\* instance "invalid").
C13_RejectionSkippedOnlyIfExists ==
    prog = "migrate"
    => \A i \in DOMAIN log :
          IsRejectedCreate(i)
          => /\ \A j \in CreatesOf(log[i].ph, log[i].rec) : j <= i
             /\ i < Len(log)
             /\ log[i + 1].op = "count"
             /\ SaysAlreadyExists(log[i].res) => log[i + 1].coll = "skipped"
             /\ log[i].res.words \cap ConflictWords = {}
                   => log[i + 1].coll = "errors"

-----------------------------------------------------------------------------
(* C14 *)

\* C14: Benign race tolerance.  For every kind, when the existence check of
\* a record found nothing and the create that follows is rejected with a
\* conflict message ("already exists", "duplicate" or "unique constraint"),
\* the record is counted as skipped, not as an error.
C14_ConflictIsSkipped ==
    prog = "migrate"
    => \A i \in DOMAIN log :
          (/\ IsRejectedCreate(i)
           /\ log[i].res.words \cap ConflictWords # {}
           /\ LastCheckSucceeded(i))
          => /\ i < Len(log)
             /\ log[i + 1].op = "count"
             /\ log[i + 1].coll = "skipped"

-----------------------------------------------------------------------------
(* C15 *)

\* C15: Source fetch outcomes.  phpipam_get(endpoint, required) returns the
\* collection when the fetch succeeds; it returns an empty list in place of
\* a failure exactly when required is false and the collection is not found
\* or not reachable; it raises when the answer's success flag is false, and
\* with required true it raises on every failure.
C15_FetchOutcomes ==
    (prog = "phpipam_get" /\ pc = "return")
    => /\ loc.outcome = "ok"
             => ~loc.got.raised /\ loc.got.result = loc.data
       /\ loc.outcome = "not_success" => loc.got.raised
       /\ (loc.required /\ loc.outcome # "ok") => loc.got.raised
       /\ (loc.outcome # "ok" /\ ~loc.got.raised)
             <=> (~loc.required /\ loc.outcome \in {"404", "transport"})
       /\ (loc.outcome # "ok" /\ ~loc.got.raised) => loc.got.result = <<>>

\* phpipam_get has raised for an optional collection whose answer had its
\* success flag false.
C15_Witness ==
    /\ prog = "phpipam_get"
    /\ pc = "return"
    /\ ~loc.required
    /\ loc.outcome = "not_success"
    /\ loc.data # <<>>
    /\ loc.got.raised

-----------------------------------------------------------------------------
(* C16 *)

\* the kinds whose loop has a retry loop
RetryPhases == {"vlans", "prefixes", "addresses"}

\* the call log[i] is made inside the retry loop of its phase: the create
\* of a VLAN; the existence check and the create of a prefix or an address
InRetryLoop(i) ==
    /\ log[i].ph \in RetryPhases
    /\ log[i].coll = CollectionOf(log[i].ph)
    /\ \/ log[i].op = "create"
       \/ log[i].op = "filter" /\ log[i].ph # "vlans"

\* the first calls of the attempts made for a record
AttemptsOf(ph, rec) ==
    {i \in DOMAIN log : /\ log[i].ph = ph
                        /\ log[i].rec = rec
                        /\ InRetryLoop(i)
                        /\ log[i].op = IF ph = "vlans" THEN "create" ELSE "filter"}

\* the calls of the attempts for a record that failed with a transient error
TransientFailuresOf(ph, rec) ==
    {i \in DOMAIN log : /\ log[i].ph = ph
                        /\ log[i].rec = rec
                        /\ InRetryLoop(i)
                        /\ IsTransient(log[i].res)}

\* C16: Retry ceiling.  For VLANs, prefixes and addresses no record gets
\* more than RETRY_ATTEMPTS attempts and none is counted twice; a record
\* that has been counted after attempts that all failed with a transient
\* error had exactly RETRY_ATTEMPTS attempts; and after RETRY_ATTEMPTS
\* transient failures the record is counted once, as an error, and nothing
\* more is done for it.
C16_RetryCeiling ==
    prog = "migrate"
    => \A ph \in RetryPhases \cap {log[i].ph : i \in DOMAIN log} :
          \A rec \in DOMAIN phpipam[EndpointOf(ph)] :
             LET tries == AttemptsOf(ph, rec)
                 transient == TransientFailuresOf(ph, rec)
                 counts == CountsOf(ph, rec)
             IN  /\ Cardinality(tries) <= RETRY_ATTEMPTS
                 /\ Cardinality(counts) <= 1
                 /\ (/\ counts # {}
                     /\ tries # {}
                     /\ Cardinality(transient) = Cardinality(tries))
                       => Cardinality(tries) = RETRY_ATTEMPTS
                 /\ Cardinality(transient) = RETRY_ATTEMPTS
                       => /\ Cardinality(counts) = 1
                          /\ \A c \in counts :
                                /\ log[c].coll = "errors"
                                /\ \A i \in DOMAIN log :
                                      (log[i].ph = ph /\ log[i].rec = rec) => i <= c

\* A prefix was counted as an error after three attempts that failed with
\* a transient error.
C16_Witness ==
    /\ prog = "migrate"
    /\ \E rec \in DOMAIN phpipam.subnets :
          /\ Cardinality(TransientFailuresOf("prefixes", rec)) = RETRY_ATTEMPTS
          /\ \E c \in CountsOf("prefixes", rec) : log[c].coll = "errors"

-----------------------------------------------------------------------------
(* C17 *)

\* the waits before the retries of a record: the sleeps that follow a
\* failed call of the retry loop
RetrySleepsOf(ph, rec) ==
    {i \in 2..Len(log) : /\ log[i].op = "sleep"
                         /\ log[i].ph = ph
                         /\ log[i].rec = rec
                         /\ InRetryLoop(i - 1)
                         /\ Failed(log[i - 1].res)}

\* C17: Linear backoff.  The wait before retry number k of a record is
\* RETRY_DELAY * k.
C17_BackoffIsLinear ==
    prog = "migrate"
    => \A ph \in RetryPhases \cap {log[i].ph : i \in DOMAIN log} :
          \A rec \in DOMAIN phpipam[EndpointOf(ph)] :
             \A i \in RetrySleepsOf(ph, rec) :
                log[i].arg =
                    RETRY_DELAY * Cardinality({j \in RetrySleepsOf(ph, rec) : j <= i})

-----------------------------------------------------------------------------
(* C18 *)

\* a failure of a target call that neither keyword set matches
IsUnclassified(e) ==
    /\ e.type \in {"RequestError", "Exception"}
    /\ ~is_connection_error(e)
    /\ ~is_validation_error(e)

\* C18: Unclassified failures.  A target call made for a record (in the
\* loop of its kind, or by get_or_create_vrf for a prefix or an address)
\* that failed with an error neither keyword set matches is not made again
\* for the record, and the record is counted as an error of its kind: it is
\* counted when its phase returns, and in no other counter.
C18_UnclassifiedIsAnError ==
    prog = "migrate"
    => \A i \in DOMAIN log :
          (/\ log[i].op \in {"filter", "create"}
           /\ log[i].rec > 0
           /\ IsUnclassified(log[i].res))
          => /\ \A j \in DOMAIN log :
                   (/\ j > i
                    /\ log[j].op = log[i].op
                    /\ log[j].coll = log[i].coll
                    /\ log[j].ph = log[i].ph
                    /\ log[j].rec = log[i].rec) => log[j].arg # log[i].arg
             /\ \A c \in CountsOf(log[i].ph, log[i].rec) : log[c].coll = "errors"
             /\ PcNo > OrderNo(log[i].ph) => CountsOf(log[i].ph, log[i].rec) # {}

-----------------------------------------------------------------------------
(* C19 *)

\* C19: Rate limiting.  Every remote call of a run, to the source (get) or
\* to the target (filter, create), comes right after a wait of
\* REQUEST_DELAY of its own.
C19_EveryCallIsDelayed ==
    \A i \in DOMAIN log :
        log[i].op \in {"get", "filter", "create"}
        => /\ i > 1
           /\ log[i - 1].op = "sleep"
           /\ log[i - 1].arg = REQUEST_DELAY

-----------------------------------------------------------------------------
(* C20 *)

\* every entry of the cache c is in d with the value it has in c
KeepsEntries(c, d) ==
    \A id \in DOMAIN c : id \in DOMAIN d /\ d[id] = c[id]

\* C20: Cache write-once.  Within one run, no step removes an entry of
\* SECTIONS_CACHE, VRFS_CACHE or VLANS_CACHE or gives it another value.
C20_CachesAreWriteOnce ==
    [][(prog = "migrate" /\ pc # "exit")
          => /\ KeepsEntries(SECTIONS_CACHE, SECTIONS_CACHE')
             /\ KeepsEntries(VRFS_CACHE, VRFS_CACHE')
             /\ KeepsEntries(VLANS_CACHE, VLANS_CACHE')]_vars

-----------------------------------------------------------------------------
(* C21 *)

\* C21: Prefix reference resolution.  In a live run, the payload of every
\* create of a prefix carries prefix = "<subnet>/<mask>" of its subnet;
\* when the subnet's vlanId is the id of a source VLAN that the VLAN phase
\* of the run counted as created or skipped, its vlan is the id of a target
\* VLAN with that source VLAN's tag; and when the subnet's section has the
\* name of a target site, its scope_id is the id of that site.
C21_PrefixReferencesResolved ==
    (prog = "migrate" /\ ~DRY_RUN)
    => \A i \in DOMAIN log :
          (log[i].op = "create" /\ log[i].coll = "prefixes")
          => LET s == phpipam.subnets[log[i].rec]
                 payload == log[i].arg
                 section_name == get_section_name(s.sectionId)
             IN  /\ payload.prefix = s.subnet \o <<"/">> \o s.mask
                 /\ \A j \in DOMAIN phpipam.vlans :
                       LET v == phpipam.vlans[j]
                       IN  (/\ s.vlanId # <<>>
                            /\ v.id = s.vlanId
                            /\ \E c \in CountsOf("vlans", j) :
                                  log[c].coll \in {"created", "skipped"})
                           => \E t \in nb.vlans :
                                 /\ t.id = payload.vlan
                                 /\ t.vid = ParseInt(FirstTruthy(
                                                <<v.number, v.vlanId, v.id>>))
                 /\ \A site \in nb.sites :
                       site.name = section_name => payload.scope_id = site.id

-----------------------------------------------------------------------------
(* C22 *)

\* C22: Counter accounting.  For every kind, a record is counted only if it
\* has a usable natural key and never more than once; while the loop of
\* the kind runs, its counters created, skipped and errors hold the number
\* of records counted so far in each, and every keyed record the loop is
\* past has been counted; when the phase has reported, every keyed record
\* of its snapshot has been counted exactly once and
\* created + skipped + errors is the number of those records.
C22_CountersAccountForRecords ==
    prog = "migrate"
    => \A ph \in Range(Phases) \cap {log[i].ph : i \in DOMAIN log} :
          LET recs == phpipam[EndpointOf(ph)]
              keyed == {k \in DOMAIN recs : HasKey(ph, recs[k])}
              counted(which) ==
                  Cardinality({i \in DOMAIN log : /\ log[i].op = "count"
                                                  /\ log[i].ph = ph
                                                  /\ log[i].coll = which})
              agrees(c) == \A which \in {"created", "skipped", "errors"} :
                              c[which] = counted(which)
              position(j) == IF "order" \in DOMAIN loc THEN loc.order[j] ELSE j
          IN  /\ \A k \in DOMAIN recs :
                    /\ Cardinality(CountsOf(ph, k)) <= 1
                    /\ CountsOf(ph, k) # {} => k \in keyed
              /\ pc \in {ph \o ":loop", ph \o ":create", ph \o ":attempt"}
                    => /\ agrees(loc.c)
                       /\ \A j \in 1..(loc.idx - 1) :
                             position(j) \in keyed
                             => Cardinality(CountsOf(ph, position(j))) = 1
              /\ ph \in DOMAIN report
                    => /\ agrees(report[ph])
                       /\ \A k \in keyed : Cardinality(CountsOf(ph, k)) = 1
                       /\ report[ph].created + report[ph].skipped + report[ph].errors
                             = Cardinality(keyed)

\* The address phase has reported an error for a snapshot that also holds
\* an address without ip.
C22_Witness ==
    /\ prog = "migrate"
    /\ "addresses" \in DOMAIN report
    /\ report["addresses"].errors >= 1
    /\ \E k \in DOMAIN phpipam.addresses : phpipam.addresses[k].ip = <<>>

-----------------------------------------------------------------------------
(* C23 *)

\* C23: VLAN cache correctness.  Every entry of VLANS_CACHE under the id of
\* a source VLAN holds the id of a target VLAN that has the source VLAN's
\* tag and its group: the target group named as the VLAN's l2domain, or no
\* group when there is none.
C23_CacheEntriesMatchTheVlan ==
    prog = "migrate"
    => \A j \in DOMAIN phpipam.vlans :
          LET v == phpipam.vlans[j]
              vid == ParseInt(FirstTruthy(<<v.number, v.vlanId, v.id>>))
              names == {phpipam.l2domains[k].name :
                           k \in {k \in DOMAIN phpipam.l2domains :
                                     phpipam.l2domains[k].id = v.domainId}}
              groups == {g \in nb.vlan_groups : g.name \in names}
          IN  (v.id # <<>> /\ v.id \in DOMAIN VLANS_CACHE)
              => \E t \in nb.vlans :
                    /\ t.id = VLANS_CACHE[v.id]
                    /\ t.vid = vid
                    /\ IF groups = {} THEN t.group = NoId
                       ELSE t.group \in {g.id : g \in groups}

-----------------------------------------------------------------------------
(* C24 *)

\* C24: No silent loss of the routing domain.  In a live run, every
\* existence check and every create made for a prefix or an address whose
\* vrfId has a VRF name in VRFS_CACHE carries the id of the target VRF of
\* that name (cut to the target's limit for names); none is made with no
\* VRF, also when get_or_create_vrf has failed.
C24_VrfIsNeverDropped ==
    (prog = "migrate" /\ ~DRY_RUN)
    => \A i \in DOMAIN log :
          (/\ log[i].op \in {"filter", "create"}
           /\ log[i].ph \in {"prefixes", "addresses"}
           /\ log[i].coll = CollectionOf(log[i].ph))
          => LET r == phpipam[EndpointOf(log[i].ph)][log[i].rec]
                 vrf_name == get_vrf_name(r.vrfId)
                 vrf == IF log[i].op = "create" THEN log[i].arg.vrf
                        ELSE log[i].arg[2]
             IN  vrf_name # <<>>
                 => \E t \in nb.vrfs :
                       /\ t.id = vrf
                       /\ t.name \in {vrf_name, Take(vrf_name, NAME_LIMIT)}

-----------------------------------------------------------------------------
(* C25 *)

\* C25: The slug collision loop terminates.  The loop of create_sites goes
\* on while slug is in used_slugs and takes the slug of the next counter
\* value on each pass, so it ends exactly when some counter value from the
\* current one on gives a slug that is not in used_slugs.  Whenever a pass
\* of the loop is due, there is such a value, and it is among the next
\* Cardinality(used_slugs) + 1 ones.
C25_CollisionLoopTerminates ==
    (prog = "create_sites" /\ pc = "sites:while" /\ loc.slug \in loc.used_slugs)
    => \E n \in loc.counter..(loc.counter + Cardinality(loc.used_slugs)) :
          suffixed_slug(loc.base_slug, n) \notin loc.used_slugs

====
